---------------------------- MODULE Spec2Model ----------------------------
(***************************************************************************)
(* zen-tasks (src/src/main.ts): a client-side task list.  The model covers *)
(* the persisted application state, the storage slot in localStorage, the  *)
(* commands that mutate the state and the load/save pair with its schema   *)
(* migration.                                                              *)
(*                                                                         *)
(* Time is Date.now() in milliseconds; a day is shortened to DayLen        *)
(* milliseconds so that day boundaries are within reach.  A calendar date  *)
(* ("YYYY-MM-DD") is modelled by its day number.  null is <<>> and a       *)
(* present value v of a nullable field is <<v>>.  An object is a function  *)
(* on its own keys, so that an absent key (deletedAt, version, ...) is     *)
(* absent from the DOMAIN.                                                 *)
(***************************************************************************)
EXTENDS Integers, Sequences, FiniteSets, TLC

VARIABLES
    appState,   \* main.ts:155  let appState: AppState
    slot,       \* localStorage[STORAGE_KEY]
    now,        \* Date.now()
    tz,         \* offset of the local time zone from UTC, in ms
    raised,     \* the last handler let an exception escape to its caller
    wlog,       \* history: outcome of the storage writes since the last load
    trail,      \* history: a deleteTask immediately followed by restoreTask
    lost,       \* history: a task vanished other than by a purge, since the load
    lastLoad,   \* history: the slot loadFromStorage read, if the last handler
                \* was the page load
    last,       \* history: the last command, its input and whether it acted
    purged,     \* history: the ids permanentDeleteTask removed since the load
    view,       \* what the page shows: the list, the counts, the trash count
    scope       \* the inputs the environment draws from in this behaviour

vars == <<appState, slot, now, tz, raised, wlog, trail, lost, lastLoad, last,
          purged, view, scope>>

-----------------------------------------------------------------------------
(* Bounds of the model *)

DayLen == 2
MaxTime == 2
MaxRand == 2
MaxTasks == 2
StoreMaxTasks == 1
MaxFails == 1

(* Program constants *)

DATA_VERSION == 2

NULL == <<>>

StatusFilters == {"all", "today", "active", "completed", "deleted"}
Tags == {"important", "someday"}

-----------------------------------------------------------------------------
(* Objects as functions on their keys *)

Has(o, k) == k \in DOMAIN o

\* o.k, which is undefined when the key is absent; d stands for the
\* value the surrounding expression gives to undefined (x ?? d, x || d)
Get(o, k, d) == IF Has(o, k) THEN o[k] ELSE d

\* { ...o, k: v }
With(o, k, v) == [x \in (DOMAIN o) \cup {k} |-> IF x = k THEN v ELSE o[x]]

\* delete o.k
Without(o, k) == [x \in (DOMAIN o) \ {k} |-> o[x]]

\* index of the first element with the given id, 0 if there is none
\* (Array.prototype.find(t => t.id === id))
FindIndex(s, id) ==
    IF \E i \in 1..Len(s) : s[i].id = id
    THEN CHOOSE i \in 1..Len(s) :
            s[i].id = id /\ \A j \in 1..(i - 1) : s[j].id # id
    ELSE 0

\* filter(t => t.id !== id)
RemoveId(s, id) == SelectSeq(s, LAMBDA t : t.id # id)

IdsOf(s) == {s[i].id : i \in 1..Len(s)}

\* Array.prototype.includes
Includes(s, x) == \E i \in 1..Len(s) : s[i] = x

-----------------------------------------------------------------------------
(* Dates *)

\* new Date(ms).toISOString().split('T')[0] : the UTC calendar date
UTCDate(ms) == ms \div DayLen

\* new Date(ms).toDateString() : the calendar date in the local time zone
LocalDate(ms) == (ms + tz) \div DayLen

-----------------------------------------------------------------------------
(* Text *)

Blank == " "

RECURSIVE TrimStart(_)
TrimStart(s) ==
    IF s # <<>> /\ Head(s) = Blank THEN TrimStart(Tail(s)) ELSE s

RECURSIVE TrimEnd(_)
TrimEnd(s) ==
    IF s # <<>> /\ s[Len(s)] = Blank THEN TrimEnd(SubSeq(s, 1, Len(s) - 1)) ELSE s

\* String.prototype.trim
Trim(s) == TrimEnd(TrimStart(s))

-----------------------------------------------------------------------------
(* Storage: main.ts:22-115 *)

\* localStorage.getItem(STORAGE_KEY) returns null
SlotAbsent == [kind |-> "absent", value |-> <<>>]

\* the slot holds text that JSON.parse rejects
SlotGarbage == [kind |-> "garbage", value |-> <<>>]

\* the slot holds the JSON text of the object o.  The object with no key,
\* SlotJson(<<>>), also stands for the JSON text of a number, a string, a
\* boolean or an array: every field loadFromStorage reads of it is undefined.
\* A field whose stored value is falsy (null, 0, "", false) is read as a
\* field that is not there: if (parsed.tasks), parsed.tasks || [].
SlotJson(o) == [kind |-> "json", value |-> o]

\* localStorage.getItem throws (the storage is not accessible)
SlotDenied == [kind |-> "denied", value |-> <<>>]

\* the slot holds the JSON text null: parsed.version is read of null
SlotNull == [kind |-> "null", value |-> <<>>]

\* the slot holds an object whose tasks, deletedTasks or tags is a number, a
\* string, true or an object: it has no map and no filter to call
SlotBadField == [kind |-> "badfield", value |-> <<>>]

\* Serialize with the recycle bin left out of the snapshot
SerializeWithoutTrash(state) ==
    With(With(state, "deletedTasks", <<>>), "version", DATA_VERSION)

\* JSON.stringify({ ...state, version: DATA_VERSION }) read back by
\* JSON.parse: the keys of every object and their values are kept, a key
\* whose value is undefined is dropped (no object of the state has one:
\* restoreTask deletes the key), and the version is stamped
Serialize(state) == With(state, "version", DATA_VERSION)

\* SaveToStorage without its catch: the exception of setItem escapes
SaveToStorageRethrows(cur, state, ok) ==
    [slot  |-> IF ok THEN SlotJson(With(state, "version", DATA_VERSION)) ELSE cur,
     threw |-> ~ok]

\* saveToStorage(state): ok is whether localStorage.setItem succeeds.  A
\* failing setItem throws and leaves the slot as it was; the catch logs the
\* exception and does not rethrow.
SaveToStorage(cur, state, ok) ==
    [slot  |-> IF ok THEN SlotJson(Serialize(state)) ELSE cur,
     threw |-> FALSE]

\* main.ts:38-42 and 59-63: { ...task, important: task.important ?? false,
\*                            dueDate: task.dueDate ?? null }
DefaultFields(task) ==
    With(With(task, "important", Get(task, "important", FALSE)),
         "dueDate", Get(task, "dueDate", NULL))

\* main.ts:46-55: the v1 -> v2 migration of one task
MigrateDueDate(task) ==
    IF task.dueDate # NULL /\ task.dueDate[1] = UTCDate(task.createdAt)
    THEN With(task, "dueDate", NULL)
    ELSE task

MapSeq(s, f(_)) == [i \in 1..Len(s) |-> f(s[i])]

\* LoadTasks with the migration left out
LoadTasksUnmigrated(parsed, currentVersion) ==
    [i \in 1..Len(parsed.tasks) |-> DefaultFields(parsed.tasks[i])]

\* LoadTasks with the migration run whatever the version of the record
LoadTasksAlwaysMigrates(parsed, currentVersion) ==
    [i \in 1..Len(parsed.tasks) |->
        MigrateDueDate(DefaultFields(parsed.tasks[i]))]

\* main.ts:37-57
LoadTasks(parsed, currentVersion) ==
    LET defaulted == MapSeq(parsed.tasks, DefaultFields)
    IN  IF currentVersion < 2 THEN MapSeq(defaulted, MigrateDueDate)
        ELSE defaulted

\* main.ts:58-64
LoadDeletedTasks(parsed) == MapSeq(parsed.deletedTasks, DefaultFields)

\* LoadStatusFilter reading only the field of the older format
LoadStatusFilterLegacyOnly(parsed) ==
    IF Has(parsed, "filter") THEN parsed.filter ELSE "all"

\* main.ts:67-75
LoadStatusFilter(parsed) ==
    IF Has(parsed, "statusFilter") THEN parsed.statusFilter
    ELSE IF Has(parsed, "filter") THEN parsed.filter
    ELSE "all"

\* LoadTags reading only the field of the current format
LoadTagsCurrentOnly(parsed) ==
    IF Has(parsed, "tags") THEN SelectSeq(parsed.tags, LAMBDA t : t # "all")
    ELSE <<>>

\* main.ts:68, 77-82
LoadTags(parsed) ==
    IF Has(parsed, "tags") THEN SelectSeq(parsed.tags, LAMBDA t : t # "all")
    ELSE IF Has(parsed, "category")
         THEN IF parsed.category = "today" THEN <<>> ELSE <<parsed.category>>
    ELSE <<>>

\* DefaultState without the version
DefaultStateUnversioned ==
    [tasks |-> <<>>, deletedTasks |-> <<>>, statusFilter |-> "all",
     tags |-> <<>>]

\* main.ts:99-105
DefaultState ==
    [tasks |-> <<>>, deletedTasks |-> <<>>, statusFilter |-> "all",
     tags |-> <<>>, version |-> DATA_VERSION]

\* main.ts:85-91
MigratedState(parsed) ==
    [tasks        |-> IF Has(parsed, "tasks")
                      THEN LoadTasks(parsed, Get(parsed, "version", 1))
                      ELSE <<>>,
     deletedTasks |-> IF Has(parsed, "deletedTasks")
                      THEN LoadDeletedTasks(parsed)
                      ELSE <<>>,
     statusFilter |-> LoadStatusFilter(parsed),
     tags         |-> LoadTags(parsed),
     version      |-> DATA_VERSION]

\* main.ts:29-34, 38, 59, 78: what throws inside the try block of
\* loadFromStorage before it reaches its saveToStorage: getItem itself,
\* JSON.parse of text that is not JSON, parsed.version of null, and map or
\* filter of a field that is not an array
LoadThrows(cur) == cur.kind \in {"denied", "garbage", "null", "badfield"}

\* LoadFromStorage without its try and catch
LoadFromStorageUncaught(cur, ok) ==
    IF cur.kind = "json"
    THEN LET newState == MigratedState(cur.value)
             saved == SaveToStorage(cur, newState, ok)
         IN  [state |-> IF saved.threw THEN DefaultState ELSE newState,
              slot  |-> saved.slot,
              wrote |-> TRUE,
              threw |-> saved.threw]
    ELSE [state |-> DefaultState, slot |-> cur, wrote |-> FALSE,
          threw |-> LoadThrows(cur)]

\* loadFromStorage(): the state it returns and the slot it leaves; ok is
\* whether the setItem of the re-persisting saveToStorage succeeds
LoadFromStorage(cur, ok) ==
    IF cur.kind = "json"
    THEN LET newState == MigratedState(cur.value)
             saved == SaveToStorage(cur, newState, ok)
             \* an exception inside the try block is caught at main.ts:96 and
             \* the default state is returned
         IN  [state |-> IF saved.threw THEN DefaultState ELSE newState,
              slot  |-> saved.slot,
              wrote |-> TRUE,
              threw |-> FALSE]
    ELSE \* the slot is absent (if (data) fails) or LoadThrows(cur): the
         \* catch logs the exception and the default state is returned
         [state |-> DefaultState, slot |-> cur, wrote |-> FALSE,
          threw |-> FALSE]

-----------------------------------------------------------------------------
(* Commands on the state: main.ts:117-120, 425-610 *)

\* generateId(): Date.now().toString(36) + Math.random().toString(36).substr(2)
\* ms is the clock reading, r the value Math.random() returns
GenerateId(ms, r) == <<ms, r>>

\* main.ts:429-437
NewTask(text, important, dueDate, ms, r) ==
    [id        |-> GenerateId(ms, r),
     text      |-> Trim(text),
     completed |-> FALSE,
     createdAt |-> ms,
     category  |-> "today",
     important |-> important,
     dueDate   |-> dueDate]

\* AddTaskRejects without the trim
AddTaskRejectsEmptyOnly(text) == text = <<>>

\* addTask: main.ts:427 returns early on a blank text
AddTaskRejects(text) == Trim(text) = <<>>

\* AddTaskF with push in place of unshift
AddTaskAppends(st, text, important, dueDate, ms, r) ==
    [st EXCEPT !.tasks = Append(@, NewTask(text, important, dueDate, ms, r))]

\* main.ts:439  appState.tasks.unshift(newTask)
AddTaskF(st, text, important, dueDate, ms, r) ==
    [st EXCEPT !.tasks = <<NewTask(text, important, dueDate, ms, r)>> \o @]

\* ToggleTaskF that also flips the trashed tasks with the id
ToggleTaskEverywhere(st, id) ==
    LET i == FindIndex(st.tasks, id)
    IN  [st EXCEPT !.tasks[i] = With(@, "completed", ~@.completed),
                   !.deletedTasks =
                       [j \in 1..Len(@) |->
                           IF @[j].id = id
                           THEN With(@[j], "completed", ~@[j].completed)
                           ELSE @[j]]]

\* main.ts:503-505
ToggleTaskF(st, id) ==
    LET i == FindIndex(st.tasks, id)
    IN  [st EXCEPT !.tasks[i] = With(@, "completed", ~@.completed)]

\* DeleteTaskF that also clears the dueDate of the task it moves
DeleteTaskClearsDate(st, id, ms) ==
    LET i == FindIndex(st.tasks, id)
        task == With(With(st.tasks[i], "deletedAt", ms), "dueDate", NULL)
    IN  [st EXCEPT !.deletedTasks = <<task>> \o @,
                   !.tasks = RemoveId(@, id)]

\* main.ts:514-518
DeleteTaskF(st, id, ms) ==
    LET i == FindIndex(st.tasks, id)
        task == With(st.tasks[i], "deletedAt", ms)
    IN  [st EXCEPT !.deletedTasks = <<task>> \o @,
                   !.tasks = RemoveId(@, id)]

\* DeleteTaskSnapshot taken between the unshift and the filter, with the
\* task in both arrays
DeleteTaskSnapshotEarly(st, id, ms) ==
    LET i == FindIndex(st.tasks, id)
        task == With(st.tasks[i], "deletedAt", ms)
    IN  [st EXCEPT !.deletedTasks = <<task>> \o @,
                   !.tasks[i] = task]

\* main.ts:516-519: the state deleteTask hands to saveToStorage, after the
\* unshift and the filter have both run
DeleteTaskSnapshot(st, id, ms) == DeleteTaskF(st, id, ms)

\* RestoreTaskF without the delete of deletedAt
RestoreTaskKeepsStamp(st, id) ==
    LET i == FindIndex(st.deletedTasks, id)
    IN  [st EXCEPT !.tasks = <<st.deletedTasks[i]>> \o @,
                   !.deletedTasks = RemoveId(@, id)]

\* RestoreTaskF with push in place of unshift
RestoreTaskAppends(st, id) ==
    LET i == FindIndex(st.deletedTasks, id)
    IN  [st EXCEPT !.tasks = Append(@, Without(st.deletedTasks[i], "deletedAt")),
                   !.deletedTasks = RemoveId(@, id)]

\* main.ts:528-532
RestoreTaskF(st, id) ==
    LET i == FindIndex(st.deletedTasks, id)
        task == Without(st.deletedTasks[i], "deletedAt")
    IN  [st EXCEPT !.tasks = <<task>> \o @,
                   !.deletedTasks = RemoveId(@, id)]

\* main.ts:530-533: the state restoreTask hands to saveToStorage, after the
\* unshift and the filter have both run
RestoreTaskSnapshot(st, id) == RestoreTaskF(st, id)

\* PermanentDeleteTaskF by splice(findIndex(...), 1): an index of -1 removes
\* the last element
PermanentDeleteTaskSplices(st, id) ==
    LET i == FindIndex(st.deletedTasks, id)
        n == Len(st.deletedTasks)
        k == IF i = 0 THEN n ELSE i
    IN  [st EXCEPT !.deletedTasks =
            [j \in 1..(IF n = 0 THEN 0 ELSE n - 1) |->
                IF j < k THEN @[j] ELSE @[j + 1]]]

\* main.ts:541
PermanentDeleteTaskF(st, id) ==
    [st EXCEPT !.deletedTasks = RemoveId(@, id)]

\* EmptyTrashF that keeps the task deleted last
EmptyTrashKeepsFirst(st) ==
    [st EXCEPT !.deletedTasks = IF @ = <<>> THEN <<>> ELSE <<@[1]>>]

\* main.ts:549
EmptyTrashF(st) == [st EXCEPT !.deletedTasks = <<>>]

\* SwitchStatusFilterF that also clears the selected tags
SwitchStatusFilterClearsTags(st, f) ==
    [st EXCEPT !.statusFilter = f, !.tags = <<>>]

\* main.ts:588
SwitchStatusFilterF(st, f) == [st EXCEPT !.statusFilter = f]

\* ToggleTagF that pushes the tag whether it is selected or not
ToggleTagAlwaysAdds(st, tag) == [st EXCEPT !.tags = Append(@, tag)]

\* main.ts:600-604
ToggleTagF(st, tag) ==
    IF Includes(st.tags, tag)
    THEN [st EXCEPT !.tags = SelectSeq(@, LAMBDA t : t # tag)]
    ELSE [st EXCEPT !.tags = Append(@, tag)]

-----------------------------------------------------------------------------
(* Queries: what renderTasks, updateStats and updateTrashCount compute *)

\* main.ts:189-198, the status predicate of renderTasks (and, duplicated,
\* main.ts:384-391 of updateStats); ms is the clock reading
StatusMatches(task, f, ms) ==
    IF f = "active" THEN ~task.completed
    ELSE IF f = "completed" THEN task.completed
    ELSE IF f = "today"
         THEN \/ task.dueDate = <<UTCDate(ms)>>
              \/ task.dueDate = NULL /\ LocalDate(task.createdAt) = LocalDate(ms)
    ELSE TRUE

\* main.ts:146-152.  new Date("YYYY-MM-DD") is the midnight of that date in
\* UTC; today.setHours(0, 0, 0, 0) is the midnight of the local date of the
\* clock reading, LocalDate(ms) * DayLen in local time, tz earlier in UTC.
IsOverdue(dateStr, ms) ==
    IF dateStr = NULL THEN FALSE
    ELSE dateStr[1] * DayLen < LocalDate(ms) * DayLen - tz

\* main.ts:241, the overdue mark of a task in the list
Overdue(task, ms) == ~task.completed /\ IsOverdue(task.dueDate, ms)

\* TagMatches that asks for every selected tag
TagMatchesEvery(task, tags) ==
    /\ Includes(tags, "important") => task.important
    /\ Includes(tags, "someday") => task.dueDate # NULL

\* main.ts:203-207
TagMatches(task, tags) ==
    \/ Includes(tags, "important") /\ task.important
    \/ Includes(tags, "someday") /\ task.dueDate # NULL

\* main.ts:188-208
FilteredTasks(st, ms) ==
    LET byStatus == SelectSeq(st.tasks,
                              LAMBDA t : StatusMatches(t, st.statusFilter, ms))
    IN  IF Len(st.tags) > 0
        THEN SelectSeq(byStatus, LAMBDA t : TagMatches(t, st.tags))
        ELSE byStatus

\* CompareTasks without the comparison of important
CompareTasksByDateOnly(a, b) ==
    IF a.completed # b.completed THEN (IF a.completed THEN 1 ELSE 0 - 1)
    ELSE b.createdAt - a.createdAt

\* CompareTasks without the comparison of createdAt
CompareTasksWithoutDate(a, b) ==
    IF a.completed # b.completed THEN (IF a.completed THEN 1 ELSE 0 - 1)
    ELSE IF a.important # b.important THEN (IF a.important THEN 0 - 1 ELSE 1)
    ELSE 0

\* main.ts:211-215, the comparator of the task list
CompareTasks(a, b) ==
    IF a.completed # b.completed THEN (IF a.completed THEN 1 ELSE 0 - 1)
    ELSE IF a.important # b.important THEN (IF a.important THEN 0 - 1 ELSE 1)
    ELSE b.createdAt - a.createdAt

\* CompareDeleted in ascending order
CompareDeletedAscending(a, b) ==
    Get(a, "deletedAt", 0) - Get(b, "deletedAt", 0)

\* main.ts:314-316, the comparator of the recycle bin
CompareDeleted(a, b) == Get(b, "deletedAt", 0) - Get(a, "deletedAt", 0)

\* Array.prototype.sort, which is stable: the element at index i goes
\* after the elements the comparator puts before it and after the earlier
\* elements the comparator ties it with.  cmp[i][j] is the comparator's
\* value on s[i] and s[j].
SortBy(s, cmp) ==
    LET rank(i) == 1 + Cardinality({j \in 1..Len(s) :
                        \/ cmp[j][i] < 0
                        \/ cmp[j][i] = 0 /\ j < i})
    IN  [k \in 1..Len(s) |-> s[CHOOSE i \in 1..Len(s) : rank(i) = k]]

\* main.ts:211-215  filteredTasks.sort(...)
SortTasks(s) ==
    SortBy(s, [i \in 1..Len(s) |->
                [j \in 1..Len(s) |-> CompareTasks(s[i], s[j])]])

\* main.ts:314-316  appState.deletedTasks.sort(...)
SortDeleted(s) ==
    SortBy(s, [i \in 1..Len(s) |->
                [j \in 1..Len(s) |-> CompareDeleted(s[i], s[j])]])

\* renderTasks: main.ts:176-235 and renderDeletedTasks: main.ts:302-316
VisibleTasks(st, ms) ==
    IF st.statusFilter = "deleted"
    THEN SortDeleted(st.deletedTasks)
    ELSE SortTasks(FilteredTasks(st, ms))

\* Counts over all the tasks, whatever the filter and the tags
CountsOfAllTasks(st, ms) ==
    IF st.statusFilter = "deleted"
    THEN [total |-> Len(st.deletedTasks), active |-> "-", completed |-> "-"]
    ELSE LET done == Len(SelectSeq(st.tasks, LAMBDA t : t.completed))
         IN  [total |-> Len(st.tasks), active |-> Len(st.tasks) - done,
              completed |-> done]

\* updateStats: main.ts:359-416
Counts(st, ms) ==
    IF st.statusFilter = "deleted"
    THEN [total |-> Len(st.deletedTasks), active |-> "-", completed |-> "-"]
    ELSE LET shown == FilteredTasks(st, ms)
             done == Len(SelectSeq(shown, LAMBDA t : t.completed))
         IN  [total |-> Len(shown), active |-> Len(shown) - done,
              completed |-> done]

\* updateTrashCount: main.ts:557-558
TrashCount(st) == Len(st.deletedTasks)

\* RenderLeaves with renderDeletedTasks sorting appState.deletedTasks itself
RenderSortsInPlace(st, ms) ==
    IF st.statusFilter = "deleted"
    THEN [st EXCEPT !.deletedTasks = SortDeleted(@)]
    ELSE st

\* the appState that renderTasks(), updateStats() and updateTrashCount()
\* leave behind.  Array.prototype.sort reorders the array it is called on:
\* renderTasks calls it on the array its filter built (main.ts:188, 211) and
\* renderDeletedTasks on the copy [...appState.deletedTasks] (main.ts:313);
\* updateStats and updateTrashCount only filter and read length.
RenderLeaves(st, ms) == st

-----------------------------------------------------------------------------
(* The slot contents the application may find at start-up *)

\* a task as the first versions stored it, its dueDate auto-assigned to the
\* date of creation
OldAuto ==
    [id |-> <<0, 0>>, text |-> <<"a">>, completed |-> FALSE, createdAt |-> 0,
     category |-> "today", important |-> FALSE, dueDate |-> <<UTCDate(0)>>]

\* a task whose dueDate was chosen by the user
OldChosen ==
    [id |-> <<1, 1>>, text |-> <<"a">>, completed |-> TRUE, createdAt |-> 1,
     category |-> "important", important |-> TRUE,
     dueDate |-> <<UTCDate(1) + 1>>]

\* a trashed task with an auto-assigned dueDate
OldTrashed ==
    [id |-> <<1, 0>>, text |-> <<"a">>, completed |-> FALSE, createdAt |-> 1,
     category |-> "today", important |-> FALSE, dueDate |-> <<UTCDate(1)>>,
     deletedAt |-> 1]

\* src/unnamed/part_000:13-17: { tasks, filter, category }
LegacyRecord ==
    [tasks |-> <<OldChosen, OldAuto>>, filter |-> "active",
     category |-> "important"]

\* a record with a recycle bin and no version
UnversionedRecord ==
    [tasks |-> <<OldAuto>>, deletedTasks |-> <<OldTrashed>>,
     statusFilter |-> "today", tags |-> <<"someday">>]

\* The records a load is checked on.  A stored task was created at the
\* start of the first day or at MaxTime; its dueDate and its important are
\* missing (<<>>) or present (<<v>>); its id is its place in the record.
StoredTask(n, c, due, imp) ==
    LET base == [id |-> <<c, n>>, text |-> <<"a">>, completed |-> FALSE,
                 createdAt |-> c, category |-> "today"]
        dated == IF due = <<>> THEN base ELSE With(base, "dueDate", due[1])
    IN  IF imp = <<>> THEN dated ELSE With(dated, "important", imp[1])

StoredCreatedAt == {0, MaxTime}

StoredDueDates == {<<>>, <<NULL>>} \cup {<<(<<d>>)>> : d \in 0..(MaxTime \div DayLen)}

StoredImportants == {<<>>, <<TRUE>>}

StoredTasksAt(n) ==
    {StoredTask(n, c, due, imp) :
        c \in StoredCreatedAt, due \in StoredDueDates, imp \in StoredImportants}

\* the tasks arrays: at most two tasks
StoredTaskLists ==
    UNION {{[i \in 1..n |-> f[i]] : f \in [1..n -> StoredTasksAt(0)]} :
            n \in 0..1}
    \cup {<<a, b>> : a \in StoredTasksAt(0), b \in StoredTasksAt(1)}

\* the deletedTasks arrays: at most one trashed task
StoredTrashLists ==
    {<<>>}
    \cup {<<With(StoredTask(2, c, <<(<<d>>)>>, <<TRUE>>), "deletedAt", c)>> :
            c \in StoredCreatedAt, d \in 0..(MaxTime \div DayLen)}

\* src/unnamed/part_000:13-17
OldShapeRecords ==
    {[tasks |-> ts, filter |-> f, category |-> c] :
        ts \in StoredTaskLists, f \in {"all", "completed"},
        c \in {"today", "someday"}}

\* main.ts:14-20, the version absent, 1 or DATA_VERSION
NewShapeRecords ==
    LET unversioned ==
            {[tasks |-> ts, deletedTasks |-> ds, statusFilter |-> "today",
              tags |-> tg] :
                ts \in StoredTaskLists, ds \in StoredTrashLists,
                tg \in {<<>>, <<"all", "someday">>}}
    IN  unversioned
        \cup {With(r, "version", v) : r \in unversioned, v \in 1..DATA_VERSION}

LoadSlots ==
    {SlotAbsent, SlotGarbage}
    \cup {SlotJson(r) : r \in OldShapeRecords \cup NewShapeRecords}

-----------------------------------------------------------------------------
(* Inputs of the commands *)

Texts == {<<>>, <<Blank, Blank>>, <<"a">>, <<Blank, "a", Blank>>}

\* the offsets of the local time zone
TzOffsets == {0 - 1, 0, 1}

\* an id no task ever has
BogusId == <<0, MaxRand>>

KnownIds == IdsOf(appState.tasks) \cup IdsOf(appState.deletedTasks)

\* the ids of the tasks the emptyTrash just before removed, which a caller
\* may still hold
StaleIds == IF last # <<>> /\ last.op = "emptyTrash" THEN last.note ELSE {}

IdInputs == KnownIds \cup StaleIds \cup {BogusId}

TotalTasks(st) == Len(st.tasks) + Len(st.deletedTasks)

\* the task life cycle: two tasks, every write succeeds
LifeScope ==
    [maxTasks   |-> MaxTasks,
     maxFails   |-> 0,
     importants |-> BOOLEAN,
     dueDates   |-> {<<MaxTime \div DayLen>>},
     filters    |-> {"all", "deleted"},
     tags       |-> {"important"},
     record     |-> FALSE,
     watch      |-> FALSE,
     display    |-> FALSE]

\* the storage: writes may fail, every filter and tag
StoreScope ==
    [maxTasks   |-> StoreMaxTasks,
     maxFails   |-> MaxFails,
     importants |-> {TRUE},
     dueDates   |-> {NULL, <<MaxTime \div DayLen>>},
     filters    |-> StatusFilters,
     tags       |-> Tags,
     record     |-> FALSE,
     watch      |-> FALSE,
     display    |-> FALSE]

-----------------------------------------------------------------------------
(* Actions *)

\* the write of a handler may fail scope.maxFails times in a behaviour
MayWrite(ok) == ok \/ wlog.fails < scope.maxFails

Logged(ok) ==
    [last  |-> IF ok THEN "ok" ELSE "fail",
     clean |-> wlog.clean /\ ok,
     fails |-> IF ok THEN wlog.fails ELSE wlog.fails + 1]

\* the tail of every mutating command: saveToStorage(appState); what follows
\* it in the handler, the refresh of the page, runs only if saveToStorage
\* returns normally
CommitSnapshot(st, snapshot, ok) ==
    LET saved == SaveToStorage(slot, snapshot, ok)
    IN  /\ MayWrite(ok)
        /\ appState' = (IF saved.threw THEN st ELSE RenderLeaves(st, now))
        /\ slot' = saved.slot
        /\ raised' = saved.threw
        /\ wlog' = Logged(ok)
        /\ lastLoad' = <<>>
        /\ UNCHANGED <<now, tz, scope>>

\* a command whose saveToStorage is its last step before the refresh
Commit(st, ok) == CommitSnapshot(st, st, ok)

\* a command that returns before it mutates or saves anything
NoOp(ok) ==
    /\ ok
    /\ raised' = FALSE
    /\ lastLoad' = <<>>
    /\ UNCHANGED <<appState, slot, wlog, trail, lost, purged, view, now, tz,
                   scope>>

\* the page as a full refresh draws it from the state st at the clock
\* reading ms: renderTasks, updateStats and updateTrashCount
Shown(st, ms) ==
    [list   |-> VisibleTasks(st, ms),
     counts |-> Counts(st, ms),
     trash  |-> TrashCount(st)]

\* the refresh calls that end a handler, after saveToStorage has returned:
\* renderTasks() redraws the list, updateStats() the counts and
\* updateTrashCount() the trash count; the parts not named stay as drawn.
\* The page is followed in the scopes that ask for it.
Refresh(parts) ==
    view' = IF ~scope.display \/ raised' THEN view
            ELSE [k \in {"list", "counts", "trash"} |->
                    IF k \in parts THEN Shown(appState', now)[k] ELSE view[k]]

\* history: the command op ran on the input arg; done is whether it got
\* past its early return; recorded in the scopes that ask for it
Did(op, arg, done, note) ==
    last' = IF scope.record
            THEN [op |-> op, arg |-> arg, done |-> done, note |-> note]
            ELSE <<>>

\* the state a page load leaves: main.ts:155
\*   let appState: AppState = loadFromStorage()
AfterLoad(s, ok, fails) ==
    LET loaded == LoadFromStorage(s, ok)
    IN  [appState |-> loaded.state,
         slot     |-> loaded.slot,
         wlog     |-> [last  |-> IF ~loaded.wrote THEN "none"
                                 ELSE IF ok THEN "ok" ELSE "fail",
                       clean |-> ok,
                       fails |-> IF ok THEN fails ELSE fails + 1],
         lastLoad |-> <<s>>,
         wrote    |-> loaded.wrote,
         raised   |-> loaded.threw]

\* start-up in the scope sc: the slot holds one of slots, the time zone is
\* one of zones and the clock reads start
InitIn(sc, slots, zones, start) ==
    \E s \in slots, ok \in BOOLEAN, z \in zones :
        LET a == AfterLoad(s, ok, 0)
        IN  /\ ok \/ (a.wrote /\ sc.maxFails > 0)
            /\ appState = RenderLeaves(a.appState, start)
            /\ slot = a.slot
            /\ wlog = a.wlog
            /\ lastLoad = a.lastLoad
            /\ now = start
            /\ tz = z
            /\ raised = a.raised
            /\ trail = <<>>
            /\ lost = FALSE
            /\ last = <<>>
            /\ purged = {}
            /\ view = (IF sc.display THEN Shown(a.appState, start) ELSE <<>>)
            /\ scope = sc

Init == InitIn(LifeScope, {SlotAbsent, SlotJson(LegacyRecord)}, {0}, DayLen - 1)

\* the page is loaded again
Reload(ok) ==
    LET a == AfterLoad(slot, ok, wlog.fails)
    IN  /\ ok \/ (a.wrote /\ wlog.fails < scope.maxFails)
        /\ appState' = RenderLeaves(a.appState, now)
        /\ slot' = a.slot
        /\ wlog' = a.wlog
        /\ lastLoad' = a.lastLoad
        /\ raised' = a.raised
        /\ trail' = <<>>
        /\ lost' = FALSE
        /\ last' = <<>>
        /\ purged' = {}
        /\ view' = (IF scope.display THEN Shown(a.appState, now) ELSE <<>>)
        /\ UNCHANGED <<now, tz, scope>>

Tick ==
    /\ now < MaxTime
    /\ now' = now + 1
    /\ UNCHANGED <<appState, slot, tz, raised, wlog, trail, lost, lastLoad,
                   last, purged, view, scope>>

AddTask(text, important, dueDate, r, ok) ==
    /\ Did("addTask", <<text, important, dueDate, r>>, ~AddTaskRejects(text),
           <<>>)
    /\ IF AddTaskRejects(text)
       THEN NoOp(ok)
       ELSE /\ TotalTasks(appState) < scope.maxTasks
            /\ Commit(AddTaskF(appState, text, important, dueDate, now, r), ok)
            /\ Refresh({"list", "counts"})
            /\ trail' = <<>>
            /\ UNCHANGED <<lost, purged>>

ToggleTask(id, ok) ==
    /\ Did("toggleTask", id, FindIndex(appState.tasks, id) # 0, <<>>)
    /\ IF FindIndex(appState.tasks, id) = 0
       THEN NoOp(ok)
       ELSE /\ Commit(ToggleTaskF(appState, id), ok)
            /\ Refresh({"list", "counts"})
            /\ trail' = <<>>
            /\ lost' = (lost \/ TotalTasks(appState') # TotalTasks(appState))
            /\ UNCHANGED purged

DeleteTask(id, ok) ==
    /\ Did("deleteTask", id, FindIndex(appState.tasks, id) # 0, <<>>)
    /\ IF FindIndex(appState.tasks, id) = 0
       THEN NoOp(ok)
       ELSE /\ CommitSnapshot(DeleteTaskF(appState, id, now),
                              DeleteTaskSnapshot(appState, id, now), ok)
            /\ Refresh({"list", "counts", "trash"})
            /\ trail' = <<"deleted",
                          appState.tasks[FindIndex(appState.tasks, id)]>>
            /\ lost' = (lost \/ TotalTasks(appState') # TotalTasks(appState))
            /\ UNCHANGED purged

\* the note of a restoreTask is whether it follows an emptyTrash that
\* removed a task with the same id
RestoreTask(id, ok) ==
    /\ Did("restoreTask", id, FindIndex(appState.deletedTasks, id) # 0,
           last # <<>> /\ last.op = "emptyTrash" /\ id \in last.note)
    /\ IF FindIndex(appState.deletedTasks, id) = 0
       THEN NoOp(ok)
       ELSE /\ CommitSnapshot(RestoreTaskF(appState, id),
                              RestoreTaskSnapshot(appState, id), ok)
            /\ Refresh({"list", "trash"})
            /\ trail' = IF trail # <<>> /\ trail[1] = "deleted"
                           /\ trail[2].id = id
                        THEN <<"restored", trail[2]>>
                        ELSE <<>>
            /\ lost' = (lost \/ TotalTasks(appState') # TotalTasks(appState))
            /\ UNCHANGED purged

PermanentDeleteTask(id, ok) ==
    LET st == PermanentDeleteTaskF(appState, id)
        found == FindIndex(appState.deletedTasks, id) # 0
    IN  /\ Did("permanentDeleteTask", id, found, <<>>)
        /\ Commit(st, ok)
        /\ Refresh({"list", "trash"})
        /\ trail' = <<>>
        /\ purged' = IF scope.watch /\ found THEN purged \cup {id} ELSE purged
        /\ UNCHANGED lost

\* the note of an emptyTrash is the set of the ids it removed
EmptyTrash(ok) ==
    /\ Did("emptyTrash", <<>>, TRUE, IdsOf(appState.deletedTasks))
    /\ Commit(EmptyTrashF(appState), ok)
    /\ Refresh({"list", "trash"})
    /\ trail' = <<>>
    /\ UNCHANGED <<lost, purged>>

SwitchStatusFilter(f, ok) ==
    /\ Did("switchStatusFilter", f, TRUE, <<>>)
    /\ Commit(SwitchStatusFilterF(appState, f), ok)
    /\ Refresh({"list", "counts", "trash"})
    /\ trail' = <<>>
    /\ UNCHANGED <<lost, purged>>

ToggleTag(tag, ok) ==
    /\ Did("toggleTag", tag, TRUE, <<>>)
    /\ Commit(ToggleTagF(appState, tag), ok)
    /\ Refresh({"list", "counts"})
    /\ trail' = <<>>
    /\ UNCHANGED <<lost, purged>>

Next ==
    \/ Tick
    \/ \E ok \in BOOLEAN : Reload(ok)
    \/ \E text \in Texts, important \in scope.importants,
          dueDate \in scope.dueDates, r \in 0..(MaxRand - 1), ok \in BOOLEAN :
            AddTask(text, important, dueDate, r, ok)
    \/ \E id \in IdInputs, ok \in BOOLEAN : ToggleTask(id, ok)
    \/ \E id \in IdInputs, ok \in BOOLEAN : DeleteTask(id, ok)
    \/ \E id \in IdInputs, ok \in BOOLEAN : RestoreTask(id, ok)
    \/ \E id \in IdInputs, ok \in BOOLEAN : PermanentDeleteTask(id, ok)
    \/ \E ok \in BOOLEAN : EmptyTrash(ok)
    \/ \E f \in scope.filters, ok \in BOOLEAN : SwitchStatusFilter(f, ok)
    \/ \E tag \in scope.tags, ok \in BOOLEAN : ToggleTag(tag, ok)

\* the task life cycle
Spec == Init /\ [][Next]_vars

\* the storage
InitStore ==
    InitIn(StoreScope, {SlotAbsent, SlotGarbage, SlotJson(UnversionedRecord)},
           {0}, DayLen - 1)

SpecStore == InitStore /\ [][Next]_vars

\* the load: every stored record of LoadSlots, read at start-up and again
\* after a re-persisting write that failed
LoadScope ==
    [maxTasks   |-> 0,
     maxFails   |-> MaxFails,
     importants |-> {},
     dueDates   |-> {},
     filters    |-> {},
     tags       |-> {},
     record     |-> FALSE,
     watch      |-> FALSE,
     display    |-> FALSE]

InitLoad == InitIn(LoadScope, LoadSlots, TzOffsets, MaxTime)

NextLoad == \E ok \in BOOLEAN : Reload(ok)

SpecLoad == InitLoad /\ [][NextLoad]_vars

\* the commands one by one: every write succeeds and the history of the
\* last command is recorded
CmdScope ==
    [maxTasks   |-> MaxTasks,
     maxFails   |-> 0,
     importants |-> {TRUE},
     dueDates   |-> {<<MaxTime \div DayLen>>},
     filters    |-> {"active"},
     tags       |-> {"someday"},
     record     |-> TRUE,
     watch      |-> FALSE,
     display    |-> FALSE]

InitCmd ==
    InitIn(CmdScope, {SlotAbsent, SlotJson(UnversionedRecord)}, {0}, DayLen - 1)

SpecCmd == InitCmd /\ [][Next]_vars

\* the recycle bin in the long run: every write succeeds and the ids that
\* permanentDeleteTask removed are recorded
PurgeScope ==
    [maxTasks   |-> MaxTasks,
     maxFails   |-> 0,
     importants |-> {TRUE},
     dueDates   |-> {NULL},
     filters    |-> {"active"},
     tags       |-> {"someday"},
     record     |-> FALSE,
     watch      |-> TRUE,
     display    |-> FALSE]

InitPurge ==
    InitIn(PurgeScope, {SlotAbsent, SlotJson(UnversionedRecord)}, {0},
           DayLen - 1)

SpecPurge == InitPurge /\ [][Next]_vars

\* the list view: a stored list with a task that is only important and a
\* task that only has a dueDate, under the status filters and the tags
ViewRecord ==
    [tasks |-> <<StoredTask(0, 0, <<NULL>>, <<TRUE>>),
                 With(StoredTask(1, 0, <<(<<1>>)>>, <<>>), "important", FALSE)>>,
     deletedTasks |-> <<>>, statusFilter |-> "all", tags |-> <<>>,
     version |-> DATA_VERSION]

\* a stored list of three tasks, most recent first: C completed and
\* important, B and A not completed, A important and the oldest
SortRecord ==
    [tasks |-> <<With(StoredTask(2, MaxTime, <<NULL>>, <<TRUE>>),
                      "completed", TRUE),
                 With(StoredTask(1, 1, <<NULL>>, <<>>), "important", FALSE),
                 StoredTask(0, 0, <<NULL>>, <<TRUE>>)>>,
     deletedTasks |-> <<>>, statusFilter |-> "all", tags |-> <<>>,
     version |-> DATA_VERSION]

\* a stored recycle bin that is not in order: a trashed task without
\* deletedAt before a trashed task with one, and an active task
TrashRecord ==
    [tasks |-> <<With(StoredTask(0, 0, <<NULL>>, <<>>), "important", FALSE)>>,
     deletedTasks |-> <<With(StoredTask(1, 0, <<NULL>>, <<TRUE>>),
                             "completed", TRUE),
                        With(StoredTask(2, 0, <<NULL>>, <<TRUE>>),
                             "deletedAt", 1)>>,
     statusFilter |-> "deleted", tags |-> <<"important">>,
     version |-> DATA_VERSION]

ViewScope ==
    [maxTasks   |-> 0,
     maxFails   |-> 0,
     importants |-> {TRUE},
     dueDates   |-> {NULL},
     filters    |-> StatusFilters,
     tags       |-> Tags,
     record     |-> FALSE,
     watch      |-> FALSE,
     display    |-> FALSE]

InitView ==
    InitIn(ViewScope,
           {SlotJson(ViewRecord), SlotJson(SortRecord), SlotJson(TrashRecord)},
           {0}, DayLen - 1)

SpecView == InitView /\ [][Next]_vars

\* the dates: a stored list with a task due on the first day, a task due on
\* the second day and a task with no dueDate, all created when the clock
\* read 0, seen under the today filter in each time zone while the clock
\* runs from the first day into the second
DateRecord ==
    [tasks |-> <<StoredTask(0, 0, <<(<<0>>)>>, <<TRUE>>),
                 StoredTask(1, 0, <<(<<1>>)>>, <<TRUE>>),
                 StoredTask(2, 0, <<NULL>>, <<TRUE>>)>>,
     deletedTasks |-> <<>>, statusFilter |-> "today", tags |-> <<>>,
     version |-> DATA_VERSION]

DateScope ==
    [maxTasks   |-> 0,
     maxFails   |-> 0,
     importants |-> {TRUE},
     dueDates   |-> {NULL},
     filters    |-> {"today"},
     tags       |-> {"someday"},
     record     |-> FALSE,
     watch      |-> FALSE,
     display    |-> FALSE]

InitDate == InitIn(DateScope, {SlotJson(DateRecord)}, TzOffsets, 0)

SpecDate == InitDate /\ [][Next]_vars

\* the page: what the handlers leave drawn, from an empty list or from a
\* stored recycle bin with one task
ShowRecord ==
    [tasks |-> <<>>,
     deletedTasks |-> <<With(StoredTask(0, 0, <<NULL>>, <<TRUE>>),
                             "deletedAt", 1)>>,
     statusFilter |-> "deleted", tags |-> <<>>, version |-> DATA_VERSION]

ShowScope ==
    [maxTasks   |-> MaxTasks,
     maxFails   |-> 0,
     importants |-> {TRUE},
     dueDates   |-> {NULL},
     filters    |-> {"all", "deleted"},
     tags       |-> {"important"},
     record     |-> TRUE,
     watch      |-> FALSE,
     display    |-> TRUE]

InitShow ==
    InitIn(ShowScope, {SlotAbsent, SlotJson(ShowRecord)}, {0}, DayLen - 1)

SpecShow == InitShow /\ [][Next]_vars

\* the selection: the filter and the tags from start-up on, the slot absent,
\* unreadable, or holding a record of the first format with a category or
\* a later record whose tags still have the old 'all'
SelectOld ==
    [tasks |-> <<>>, filter |-> "completed", category |-> "important"]

SelectNew ==
    [tasks |-> <<>>, deletedTasks |-> <<>>, statusFilter |-> "deleted",
     tags |-> <<"all", "someday">>]

SelectScope ==
    [maxTasks   |-> StoreMaxTasks,
     maxFails   |-> 0,
     importants |-> {TRUE},
     dueDates   |-> {NULL},
     filters    |-> StatusFilters,
     tags       |-> Tags,
     record     |-> FALSE,
     watch      |-> FALSE,
     display    |-> FALSE]

InitSelect ==
    InitIn(SelectScope,
           {SlotAbsent, SlotGarbage, SlotJson(SelectOld), SlotJson(SelectNew)},
           {0}, DayLen - 1)

SpecSelect == InitSelect /\ [][Next]_vars

\* the shapes: start-up and the commands whatever the slot holds, with
\* writes that may fail
ShapeSlots ==
    {SlotAbsent, SlotGarbage, SlotDenied, SlotNull, SlotBadField,
     SlotJson(<<>>), SlotJson(UnversionedRecord)}

ShapeScope ==
    [maxTasks   |-> StoreMaxTasks,
     maxFails   |-> MaxFails,
     importants |-> {TRUE},
     dueDates   |-> {NULL},
     filters    |-> {"all"},
     tags       |-> {"important"},
     record     |-> FALSE,
     watch      |-> FALSE,
     display    |-> FALSE]

InitShape == InitIn(ShapeScope, ShapeSlots, {0}, DayLen - 1)

SpecShape == InitShape /\ [][Next]_vars

-----------------------------------------------------------------------------
(* Properties *)

Tasks == appState.tasks

DeletedTasks == appState.deletedTasks

NoRepeatedId(s) == \A i, j \in 1..Len(s) : i # j => s[i].id # s[j].id

AllTasks == Tasks \o DeletedTasks

\* C1: after any sequence of commands every task that was created and not
\* purged is in exactly one of tasks and deletedTasks: no id is in both, no
\* id is twice in one of them, and no task has been lost.
C1_ExactlyOnePlace ==
    /\ IdsOf(Tasks) \cap IdsOf(DeletedTasks) = {}
    /\ NoRepeatedId(Tasks)
    /\ NoRepeatedId(DeletedTasks)
    /\ ~lost

\* C2: a task has deletedAt if and only if it is in deletedTasks.
C2_DeletedAtIffTrashed ==
    /\ \A i \in 1..Len(DeletedTasks) : Has(DeletedTasks[i], "deletedAt")
    /\ \A i \in 1..Len(Tasks) : ~Has(Tasks[i], "deletedAt")

C2_Witness ==
    /\ Len(Tasks) > 0
    /\ Len(DeletedTasks) > 0
    /\ trail # <<>>
    /\ trail[1] = "restored"

C4_IdsDistinct == NoRepeatedId(AllTasks)

\* the four fields of the application state agree
SameData(a, b) ==
    /\ a.tasks = b.tasks
    /\ a.deletedTasks = b.deletedTasks
    /\ a.statusFilter = b.statusFilter
    /\ a.tags = b.tags

\* C5: when the write of a command fails, the command does not raise, the
\* slot keeps what it held, and the mutation stands in memory: the state,
\* and with it visibleTasks, counts and trashCount, is the one the command
\* produces when its write succeeds.
MutationStands(st) ==
    /\ raised' = FALSE
    /\ slot' = slot
    /\ appState' = st
    /\ VisibleTasks(appState', now') = VisibleTasks(st, now)
    /\ Counts(appState', now') = Counts(st, now)
    /\ TrashCount(appState') = TrashCount(st)

\* the step is a command whose write failed
WriteFailed == lastLoad' = <<>> /\ wlog'.fails = wlog.fails + 1

C5_FailedWriteKeepsMutation ==
    [][ WriteFailed =>
        /\ raised' = FALSE
        /\ \A text \in Texts, important \in scope.importants,
             dueDate \in scope.dueDates, r \in 0..(MaxRand - 1) :
               AddTask(text, important, dueDate, r, FALSE) =>
                 MutationStands(AddTaskF(appState, text, important, dueDate,
                                         now, r))
        /\ \A id \in IdInputs :
             /\ ToggleTask(id, FALSE) =>
                  MutationStands(ToggleTaskF(appState, id))
             /\ DeleteTask(id, FALSE) =>
                  MutationStands(DeleteTaskF(appState, id, now))
             /\ RestoreTask(id, FALSE) =>
                  MutationStands(RestoreTaskF(appState, id))
             /\ PermanentDeleteTask(id, FALSE) =>
                  MutationStands(PermanentDeleteTaskF(appState, id))
        /\ EmptyTrash(FALSE) => MutationStands(EmptyTrashF(appState))
        /\ \A f \in scope.filters :
             SwitchStatusFilter(f, FALSE) =>
               MutationStands(SwitchStatusFilterF(appState, f))
        /\ \A tag \in scope.tags :
             ToggleTag(tag, FALSE) => MutationStands(ToggleTagF(appState, tag))
      ]_vars

\* a command has just failed to write and the memory is ahead of the slot
C5_Witness ==
    /\ lastLoad = <<>>
    /\ wlog.last = "fail"
    /\ Len(Tasks) > 0
    /\ ~(slot.kind = "json" /\ SameData(slot.value, appState))
    /\ ~raised

\* C6: once the writes of one or more commands have failed, the slot holds,
\* after the next write that succeeds, the whole current state in memory.
C6_NextWriteStoresAll ==
    (~wlog.clean /\ wlog.last = "ok") =>
        /\ slot.kind = "json"
        /\ SameData(slot.value, appState)
        /\ slot.value.version = DATA_VERSION

C6_Witness ==
    /\ ~wlog.clean
    /\ wlog.last = "ok"
    /\ lastLoad = <<>>
    /\ Len(DeletedTasks) > 0

\* C7: while every write has succeeded, loading the slot again returns the
\* tasks, deletedTasks, statusFilter and tags that are in memory.
C7_ReloadReturnsState ==
    wlog.clean => SameData(LoadFromStorage(slot, TRUE).state, appState)

C7_Witness ==
    /\ wlog.clean
    /\ wlog.last = "ok"
    /\ lastLoad = <<>>
    /\ Len(Tasks) > 0
    /\ Tasks[1].dueDate = <<UTCDate(Tasks[1].createdAt)>>
    /\ appState.statusFilter = "completed"
    /\ Len(appState.tags) = 2

\* what the last handler, a page load, found in the slot
JustLoaded == lastLoad # <<>>

Found == lastLoad[1]

Unreadable == JustLoaded /\ Found.kind \in {"absent", "garbage"}

\* C8, as the specification states it: a load of an absent or unparsable
\* slot returns no tasks, no deleted tasks, statusFilter today, no tags and
\* the current schema version.
C8_DefaultIsToday ==
    Unreadable =>
        appState = [tasks |-> <<>>, deletedTasks |-> <<>>,
                    statusFilter |-> "today", tags |-> <<>>,
                    version |-> DATA_VERSION]

\* C8, amended: a load of an absent or unparsable slot returns no tasks, no
\* deleted tasks, statusFilter all, no tags and the current schema version.
C8_DefaultIsAll ==
    Unreadable =>
        appState = [tasks |-> <<>>, deletedTasks |-> <<>>,
                    statusFilter |-> "all", tags |-> <<>>,
                    version |-> DATA_VERSION]

C8_Witness ==
    /\ JustLoaded
    /\ Found.kind = "garbage"
    /\ appState.statusFilter = "all"

\* the dueDate of a stored task is the (UTC) date of its createdAt
AutoAssigned(task) ==
    /\ Has(task, "dueDate")
    /\ task.dueDate # NULL
    /\ task.dueDate[1] = UTCDate(task.createdAt)

Unversioned ==
    JustLoaded /\ Found.kind = "json" /\ ~Has(Found.value, "version")

\* C9: the load of a record without a version returns every active task
\* whose dueDate is the date of its createdAt with dueDate null and every
\* other task with the dueDate it was stored with; the state returned and
\* the record written back carry the current schema version.
C9_LegacyDueDateCleared ==
    Unversioned =>
        LET old == Found.value
        IN  /\ Len(Tasks) = Len(old.tasks)
            /\ \A i \in 1..Len(Tasks) :
                 Tasks[i].dueDate = IF AutoAssigned(old.tasks[i]) THEN NULL
                                    ELSE Get(old.tasks[i], "dueDate", NULL)
            /\ Has(old, "deletedTasks") =>
                 /\ Len(DeletedTasks) = Len(old.deletedTasks)
                 /\ \A i \in 1..Len(DeletedTasks) :
                      DeletedTasks[i].dueDate =
                          Get(old.deletedTasks[i], "dueDate", NULL)
            /\ appState.version = DATA_VERSION
            /\ wlog.last = "ok" =>
                 /\ slot.kind = "json"
                 /\ slot.value.version = DATA_VERSION
                 /\ slot.value.tasks = Tasks

C9_Witness ==
    /\ Unversioned
    /\ wlog.last = "ok"
    /\ Len(Tasks) = 2
    /\ AutoAssigned(Found.value.tasks[1])
    /\ Tasks[1].dueDate = NULL
    /\ ~AutoAssigned(Found.value.tasks[2])
    /\ Tasks[2].dueDate # NULL

\* C10: after the load of a record older than schema version 2 no task of
\* the state, active or trashed, has a dueDate that is the date of its own
\* createdAt.
C10_NoAutoAssignedLeft ==
    (JustLoaded /\ Found.kind = "json" /\ Get(Found.value, "version", 1) < 2) =>
        \A i \in 1..Len(AllTasks) : ~AutoAssigned(AllTasks[i])

\* the last handler was a page load that found a record stamped with the
\* current schema version
FoundCurrent ==
    /\ JustLoaded
    /\ Found.kind = "json"
    /\ Has(Found.value, "version")
    /\ Found.value.version = DATA_VERSION

\* C11: the migration runs at most once per stored record.  Every write
\* stamps the record with the current schema version, and the load of a
\* record so stamped returns every task with the dueDate it was stored with:
\* a task added with a dueDate equal to its creation date keeps it across
\* saves and reloads.
C11_MigratesOnce ==
    /\ (wlog.last = "ok" /\ slot.kind = "json") =>
           (Has(slot.value, "version") /\ slot.value.version = DATA_VERSION)
    /\ FoundCurrent =>
           /\ Len(Tasks) = Len(Found.value.tasks)
           /\ \A i \in 1..Len(Tasks) :
                Tasks[i].dueDate = Get(Found.value.tasks[i], "dueDate", NULL)

\* a task added at MaxTime with the date of MaxTime as its dueDate has been
\* saved and loaded again
C11_Witness ==
    /\ FoundCurrent
    /\ Len(Tasks) > 0
    /\ Tasks[1].createdAt = MaxTime
    /\ Tasks[1].dueDate = <<UTCDate(MaxTime)>>

\* the last handler was a page load that found a record of the older
\* format: tasks, filter and category and nothing else
FoundOldShape ==
    /\ JustLoaded
    /\ Found.kind = "json"
    /\ DOMAIN Found.value = {"tasks", "filter", "category"}

\* C12: a record of the older format loads with all its tasks in tasks, in
\* their order, no deleted tasks, the old filter as statusFilter, and as
\* tags none when the old category was today and the category otherwise.
C12_OldFormatLoads ==
    FoundOldShape =>
        LET old == Found.value
        IN  /\ Len(Tasks) = Len(old.tasks)
            /\ \A i \in 1..Len(Tasks) :
                 \A k \in {"id", "text", "completed", "createdAt", "category"} :
                    Tasks[i][k] = old.tasks[i][k]
            /\ DeletedTasks = <<>>
            /\ appState.statusFilter = old.filter
            /\ appState.tags = IF old.category = "today" THEN <<>>
                               ELSE <<old.category>>

C12_Witness ==
    /\ FoundOldShape
    /\ Len(Tasks) = 2
    /\ Found.value.filter = "completed"
    /\ Found.value.category = "someday"
    /\ appState.tags = <<"someday">>

\* the step is the command op (its input is last'.arg); the clock does not
\* advance inside a command
Step(op) == last' # <<>> /\ last'.op = op /\ now' = now /\ lastLoad' = <<>>

\* the last command was op and it returned early
Ignored(op) == last # <<>> /\ last.op = op /\ ~last.done

\* C13: addTask with a text that is empty or blank leaves the whole state
\* unchanged and raises nothing.
C13_BlankTextIgnored ==
    [][ (Step("addTask") /\ Trim(last'.arg[1]) = <<>>) =>
            (appState' = appState /\ raised' = FALSE) ]_vars

C13_Witness ==
    /\ Ignored("addTask")
    /\ last.arg[1] = <<Blank, Blank>>
    /\ Len(Tasks) > 0
    /\ ~raised

\* C14: toggleTask and deleteTask with an id that is not in tasks, and
\* restoreTask and permanentDeleteTask with an id that is not in
\* deletedTasks, leave the whole state unchanged and raise nothing.
C14_UnknownIdIgnored ==
    [][ /\ ((Step("toggleTask") \/ Step("deleteTask"))
             /\ last'.arg \notin IdsOf(Tasks)) =>
                (appState' = appState /\ raised' = FALSE)
        /\ ((Step("restoreTask") \/ Step("permanentDeleteTask"))
             /\ last'.arg \notin IdsOf(DeletedTasks)) =>
                (appState' = appState /\ raised' = FALSE) ]_vars

\* permanentDeleteTask was given the id of an active task while the recycle
\* bin held another task
C14_Witness ==
    /\ Ignored("permanentDeleteTask")
    /\ last.arg \in IdsOf(Tasks)
    /\ last.arg \notin IdsOf(DeletedTasks)
    /\ Len(DeletedTasks) > 0
    /\ ~raised

\* C15: addTask with a text that is not blank puts exactly one new task at
\* the front of tasks: not completed, its text the trimmed input, the given
\* important and dueDate, createdAt the clock reading and no deletedAt; the
\* tasks that were there follow in their order and deletedTasks is unchanged.
C15_AddPutsTaskFirst ==
    [][ (Step("addTask") /\ Trim(last'.arg[1]) # <<>>) =>
            /\ Len(Tasks') = Len(Tasks) + 1
            /\ Tasks'[1].completed = FALSE
            /\ Tasks'[1].text = Trim(last'.arg[1])
            /\ Tasks'[1].important = last'.arg[2]
            /\ Tasks'[1].dueDate = last'.arg[3]
            /\ Tasks'[1].createdAt = now
            /\ ~Has(Tasks'[1], "deletedAt")
            /\ Tail(Tasks') = Tasks
            /\ DeletedTasks' = DeletedTasks ]_vars

C15_Witness ==
    /\ last # <<>>
    /\ last.op = "addTask"
    /\ last.done
    /\ last.arg[1] = <<Blank, "a", Blank>>
    /\ Len(Tasks) = 2
    /\ Len(DeletedTasks) = 0
    /\ Tasks[1].text = <<"a">>
    /\ Tasks[1].createdAt = now
    /\ Tasks[1].createdAt > Tasks[2].createdAt

\* the sequence s without its element at index i
RemoveAt(s, i) == [j \in 1..(Len(s) - 1) |-> IF j < i THEN s[j] ELSE s[j + 1]]

\* C16: deleteTask(id) for an id in tasks removes that task from tasks and
\* puts it at the front of deletedTasks with deletedAt the clock reading;
\* all other tasks keep their places in both sequences.
C16_DeleteMovesTask ==
    [][ (Step("deleteTask") /\ last'.arg \in IdsOf(Tasks)) =>
            LET i == FindIndex(Tasks, last'.arg)
            IN  /\ Tasks' = RemoveAt(Tasks, i)
                /\ DeletedTasks' = <<With(Tasks[i], "deletedAt", now)>>
                                       \o DeletedTasks ]_vars

\* the step is a command
AnyCommand == last' # <<>> /\ now' = now /\ lastLoad' = <<>>

\* every task of deletedTasks after the step, from index from on, was in
\* deletedTasks before it, unaltered
TrashedUnaltered(from) ==
    \A j \in from..Len(DeletedTasks') :
        \E i \in 1..Len(DeletedTasks) : DeletedTasks'[j] = DeletedTasks[i]

\* C17: toggleTask(id) for an id in tasks negates completed of that one task
\* and changes nothing else: the other tasks, the order of tasks,
\* deletedTasks, statusFilter and tags.  No command changes the completed
\* flag of a task in deletedTasks: what a command leaves in deletedTasks is
\* what was there, unaltered, and the task deleteTask puts at its front.
C17_ToggleFlipsOneTask ==
    [][ /\ (Step("toggleTask") /\ last'.arg \in IdsOf(Tasks)) =>
              LET i == FindIndex(Tasks, last'.arg)
              IN  /\ Tasks' = [Tasks EXCEPT
                                 ![i] = With(@, "completed", ~@.completed)]
                  /\ DeletedTasks' = DeletedTasks
                  /\ appState'.statusFilter = appState.statusFilter
                  /\ appState'.tags = appState.tags
        /\ AnyCommand =>
              IF Step("deleteTask") /\ last'.done
              THEN /\ TrashedUnaltered(2)
                   /\ DeletedTasks'[1].completed =
                        Tasks[FindIndex(Tasks, last'.arg)].completed
              ELSE TrashedUnaltered(1) ]_vars

\* toggleTask has flipped an active task whose id a trashed task shares
C17_Witness ==
    /\ last # <<>>
    /\ last.op = "toggleTask"
    /\ last.done
    /\ last.arg \in IdsOf(DeletedTasks)
    /\ Tasks[FindIndex(Tasks, last.arg)].completed
    /\ ~DeletedTasks[FindIndex(DeletedTasks, last.arg)].completed

\* C18: purge is irreversible.  Once permanentDeleteTask(id) has removed a
\* task from deletedTasks, no task with that id is in tasks or in
\* deletedTasks after any later commands.
C18_PurgedNeverReturns == purged \cap KnownIds = {}

\* C19: after emptyTrash deletedTasks is empty, and a restoreTask(id) that
\* follows it, for any id that was in the recycle bin before, leaves tasks
\* and deletedTasks unchanged.
C19_EmptyTrashThenRestore ==
    [][ /\ Step("emptyTrash") => DeletedTasks' = <<>>
        /\ (Step("restoreTask") /\ last'.note) =>
              /\ Tasks' = Tasks
              /\ DeletedTasks' = DeletedTasks
              /\ raised' = FALSE ]_vars

\* restoreTask was given an id that the emptyTrash before it had removed
C19_Witness ==
    /\ last # <<>>
    /\ last.op = "restoreTask"
    /\ last.note
    /\ ~last.done
    /\ DeletedTasks = <<>>
    /\ last.arg \notin IdsOf(Tasks)

\* the elements of a sequence
Range(s) == {s[i] : i \in 1..Len(s)}

\* the status predicate and the tag predicate of the list view, as the
\* claim states them
StatusWanted(task) ==
    \/ appState.statusFilter = "all"
    \/ appState.statusFilter = "active" /\ ~task.completed
    \/ appState.statusFilter = "completed" /\ task.completed

TagWanted(task, tags) ==
    \/ tags = <<>>
    \/ "important" \in Range(tags) /\ task.important
    \/ "someday" \in Range(tags) /\ task.dueDate # NULL

WantedAt(tags) ==
    {i \in 1..Len(Tasks) : StatusWanted(Tasks[i]) /\ TagWanted(Tasks[i], tags)}

\* C20: under the status filters all, active and completed, visibleTasks
\* holds exactly the tasks of tasks that satisfy the status predicate and,
\* when tags are selected, the predicate of at least one selected tag; with
\* both tags selected it is the union of the two single-tag results.
C20_VisibleIsFiltered ==
    appState.statusFilter \in {"all", "active", "completed"} =>
        LET shown == VisibleTasks(appState, now)
            only(tag) == VisibleTasks([appState EXCEPT !.tags = <<tag>>], now)
        IN  /\ Len(shown) = Cardinality(WantedAt(appState.tags))
            /\ Range(shown) = {Tasks[i] : i \in WantedAt(appState.tags)}
            /\ Len(appState.tags) = 2 =>
                 Range(shown) = Range(only("important")) \cup Range(only("someday"))

\* both tags are selected and the list shows a task that is only important
\* and a task that only has a dueDate
C20_Witness ==
    /\ appState.statusFilter = "active"
    /\ Len(appState.tags) = 2
    /\ Len(VisibleTasks(appState, now)) = 2
    /\ \E i \in 1..Len(Tasks) : Tasks[i].important /\ Tasks[i].dueDate = NULL
    /\ \E i \in 1..Len(Tasks) : ~Tasks[i].important /\ Tasks[i].dueDate # NULL

\* C21: under a status filter other than deleted the list is ordered: a
\* task that is not completed precedes every completed one; among tasks
\* equally completed an important one precedes every other; among tasks
\* equally completed and equally important the later createdAt comes first.
C21_VisibleIsOrdered ==
    appState.statusFilter # "deleted" =>
        LET shown == VisibleTasks(appState, now)
        IN  \A i, j \in 1..Len(shown) :
                i < j =>
                    LET a == shown[i]
                        b == shown[j]
                    IN  /\ ~(a.completed /\ ~b.completed)
                        /\ (a.completed = b.completed) =>
                              ~(~a.important /\ b.important)
                        /\ (a.completed = b.completed
                              /\ a.important = b.important) =>
                              a.createdAt >= b.createdAt

\* the list of the example: A (not completed, important, the oldest), then
\* B (not completed, not important), then C (completed, important, the
\* most recent), stored in the opposite order
C21_Witness ==
    /\ appState.statusFilter = "all"
    /\ appState.tags = <<>>
    /\ Len(Tasks) = 3
    /\ Tasks[1].createdAt > Tasks[2].createdAt
    /\ Tasks[2].createdAt > Tasks[3].createdAt
    /\ Tasks[1].completed /\ Tasks[1].important
    /\ ~Tasks[2].completed /\ ~Tasks[2].important
    /\ ~Tasks[3].completed /\ Tasks[3].important
    /\ VisibleTasks(appState, now) = <<Tasks[3], Tasks[2], Tasks[1]>>

\* how many times x is in the sequence s
CountIn(s, x) == Cardinality({i \in 1..Len(s) : s[i] = x})

\* C22: under the status filter deleted the list is deletedTasks, every
\* task of it once, in descending deletedAt with the tasks that have no
\* deletedAt last, whatever tags are selected; trashCount is the length of
\* deletedTasks under every status filter and tag selection.
C22_DeletedViewAndCount ==
    /\ TrashCount(appState) = Len(DeletedTasks)
    /\ appState.statusFilter = "deleted" =>
          LET shown == VisibleTasks(appState, now)
          IN  /\ Len(shown) = Len(DeletedTasks)
              /\ \A i \in 1..Len(DeletedTasks) :
                    CountIn(shown, DeletedTasks[i])
                        = CountIn(DeletedTasks, DeletedTasks[i])
              /\ \A i, j \in 1..Len(shown) :
                    i < j =>
                        /\ ~Has(shown[i], "deletedAt") =>
                              ~Has(shown[j], "deletedAt")
                        /\ (Has(shown[i], "deletedAt")
                              /\ Has(shown[j], "deletedAt")) =>
                              shown[i].deletedAt >= shown[j].deletedAt
              /\ \A tags \in {<<>>, <<"important">>, <<"someday">>} :
                    VisibleTasks([appState EXCEPT !.tags = tags], now) = shown

\* tags are selected and the recycle bin, which is not stored in order,
\* holds a task without deletedAt between two with one
C22_Witness ==
    /\ appState.statusFilter = "deleted"
    /\ appState.tags = <<"important">>
    /\ Len(DeletedTasks) = 3
    /\ ~Has(DeletedTasks[2], "deletedAt")
    /\ ~DeletedTasks[1].important
    /\ VisibleTasks(appState, now)
          = <<DeletedTasks[1], DeletedTasks[3], DeletedTasks[2]>>

\* C23: under a status filter other than deleted the counts are those of
\* the list: total is the number of tasks the list shows, completed the
\* number of completed tasks among them and active the rest; under the
\* status filter deleted, total is the length of deletedTasks.
C23_CountsMatchList ==
    LET shown == VisibleTasks(appState, now)
        counts == Counts(appState, now)
    IN  IF appState.statusFilter = "deleted"
        THEN counts.total = Len(DeletedTasks)
        ELSE /\ counts.total = Len(shown)
             /\ counts.completed
                  = Cardinality({i \in 1..Len(shown) : shown[i].completed})
             /\ counts.active = counts.total - counts.completed

\* tags and a status filter hide some of the tasks, and the list shows a
\* completed task and one that is not
C23_Witness ==
    /\ appState.statusFilter = "today"
    /\ Len(appState.tags) = 1
    /\ Len(VisibleTasks(appState, now)) = 2
    /\ Len(Tasks) = 3
    /\ Counts(appState, now).completed = 1
    /\ Counts(appState, now).active = 1

\* C24: toggleTag(t) adds t to tags when it is not selected and removes it
\* when it is; two calls in a row leave the selection, the set of the
\* selected tags, as it was before them.
C24_ToggleTagTwice ==
    \A t \in Tags :
        LET before == Range(appState.tags)
            once == Range(ToggleTagF(appState, t).tags)
            twice == Range(ToggleTagF(ToggleTagF(appState, t), t).tags)
        IN  /\ t \in before => once = before \ {t}
            /\ t \notin before => once = before \cup {t}
            /\ twice = before

\* toggleTag has left both tags selected, someday first: two more calls
\* with someday keep the selection and change the order of the array
C24_Witness ==
    /\ appState.tags = <<"someday", "important">>
    /\ ToggleTagF(ToggleTagF(appState, "someday"), "someday").tags
          = <<"important", "someday">>

\* the calendar date of the local clock at the clock reading
Today == LocalDate(now)

\* C25: under the today filter, with no tag selected, a task of tasks is
\* shown exactly when its dueDate is the local date of the clock, or it has
\* no dueDate and was created on the local date of the clock.
C25_TodayIsLocal ==
    (appState.statusFilter = "today" /\ appState.tags = <<>>) =>
        \A i \in 1..Len(Tasks) :
            Includes(VisibleTasks(appState, now), Tasks[i])
                <=> \/ Tasks[i].dueDate = <<Today>>
                    \/ /\ Tasks[i].dueDate = NULL
                       /\ LocalDate(Tasks[i].createdAt) = Today

\* C26: under the today filter, with no tag selected, a task whose dueDate
\* is the day before the local date of the clock is not shown and, when it
\* is not completed, is marked overdue; a task with no dueDate that was
\* created on the local date of the clock is shown.
C26_YesterdayAndCreatedToday ==
    (appState.statusFilter = "today" /\ appState.tags = <<>>) =>
        \A i \in 1..Len(Tasks) :
            /\ Tasks[i].dueDate = <<Today - 1>> =>
                  /\ ~Includes(VisibleTasks(appState, now), Tasks[i])
                  /\ ~Tasks[i].completed => Overdue(Tasks[i], now)
            /\ (Tasks[i].dueDate = NULL /\ LocalDate(Tasks[i].createdAt) = Today)
                  => Includes(VisibleTasks(appState, now), Tasks[i])

\* C27: a task is marked overdue exactly when it is not completed and its
\* dueDate is a date before the local date of the clock.
C27_OverdueIsBeforeToday ==
    \A i \in 1..Len(Tasks) :
        Overdue(Tasks[i], now)
            <=> /\ ~Tasks[i].completed
                /\ Tasks[i].dueDate # NULL
                /\ Tasks[i].dueDate[1] < Today


\* the step is a command that got past its early return
Acted == last' # <<>> /\ last'.done /\ now' = now /\ lastLoad' = <<>>

\* C28: when a command that changes the state has completed, the page shows
\* visibleTasks(), counts() and trashCount() of the resulting state.
C28_ViewIsRefreshed ==
    [][Acted => view' = Shown(appState', now')]_vars


\* C29: statusFilter is one of the five filters, and tags holds only
\* important and someday, each at most once.
C29_SelectionIsValid ==
    /\ appState.statusFilter \in StatusFilters
    /\ Range(appState.tags) \subseteq Tags
    /\ Cardinality(Range(appState.tags)) = Len(appState.tags)

\* commands have run since the load: the today filter is chosen and both
\* tags are selected, important first
C29_Witness ==
    /\ lastLoad = <<>>
    /\ slot.kind = "json"
    /\ appState.statusFilter = "today"
    /\ appState.tags = <<"important", "someday">>


\* the fields of a task that are set at its creation
Frozen(t) ==
    [k \in {"id", "text", "createdAt", "important", "dueDate"} |-> t[k]]

TasksOf(st) == Range(st.tasks) \cup Range(st.deletedTasks)

\* C30: a command leaves the id, text, createdAt, important and dueDate of
\* the tasks as they were: every task of tasks and deletedTasks after the
\* command has these five fields as a task had them before it, except the
\* task addTask has just put at the front of tasks.
C30_CreationFieldsKept ==
    [][lastLoad' = <<>> =>
         \A t \in TasksOf(appState') :
            \/ \E u \in TasksOf(appState) : Frozen(t) = Frozen(u)
            \/ /\ TotalTasks(appState') = TotalTasks(appState) + 1
               /\ t = appState'.tasks[1]]_vars

\* a task was completed, deleted and restored, and has the five fields it
\* had before
C30_Witness ==
    /\ trail # <<>>
    /\ trail[1] = "restored"
    /\ Len(Tasks) > 0
    /\ Tasks[1].completed
    /\ Frozen(Tasks[1]) = Frozen(trail[2])


IsSequence(x) == DOMAIN x = 1..Len(x)

\* C31: the page load and every command return without an exception,
\* whatever the slot holds and whether the storage can be read and written
\* or not, and tasks, deletedTasks and tags are sequences.
C31_NothingRaised ==
    /\ ~raised
    /\ IsSequence(appState.tasks)
    /\ IsSequence(appState.deletedTasks)
    /\ IsSequence(appState.tags)

\* the page was loaded with a field of the stored object that is not an
\* array, after a write had failed
C31_Witness ==
    /\ lastLoad = <<SlotBadField>>
    /\ wlog.fails > 0
    /\ appState.tasks = <<>>
    /\ ~raised


\* C32: the queries change nothing: renderTasks, updateStats and
\* updateTrashCount run on the state leave tasks, deletedTasks, statusFilter
\* and tags as they are, in content and order, and the slot holds what the
\* handler saved before it ran them.
C32_QueriesLeaveState ==
    /\ SameData(RenderLeaves(appState, now), appState)
    /\ slot.kind = "json"
    /\ SameData(slot.value, appState)

\* after a command, the recycle bin is shown in an order that is not the
\* order of deletedTasks
C32_Witness ==
    /\ lastLoad = <<>>
    /\ appState.statusFilter = "deleted"
    /\ Len(DeletedTasks) = 2
    /\ VisibleTasks(appState, now) # DeletedTasks
    /\ SameData(slot.value, appState)


\* no task of the state is half way through a move: a task of tasks has no
\* deletedAt and a task of deletedTasks has one
NotMidMove(tasks, deletedTasks) ==
    /\ \A i \in 1..Len(tasks) : ~Has(tasks[i], "deletedAt")
    /\ \A i \in 1..Len(deletedTasks) : Has(deletedTasks[i], "deletedAt")

\* C33: what a handler writes to the slot is the state it leaves, and the
\* list and the trash count it draws are those of the state it leaves; no
\* task that deleteTask or restoreTask is moving is stored or drawn in both
\* arrays.
C33_OnlyFinishedStatesSeen ==
    [][/\ slot' # slot =>
            /\ slot'.kind = "json"
            /\ SameData(slot'.value, appState')
            /\ NotMidMove(slot'.value.tasks, slot'.value.deletedTasks)
       /\ (view'.list # view.list \/ view'.trash # view.trash) =>
            /\ view'.list = VisibleTasks(appState', now')
            /\ view'.trash = TrashCount(appState')
            /\ IF appState'.statusFilter = "deleted"
               THEN NotMidMove(<<>>, view'.list)
               ELSE NotMidMove(view'.list, <<>>)]_vars

\* deleteTask has just moved a task: it is stored and drawn in the recycle
\* bin only
C33_Witness ==
    /\ last # <<>>
    /\ last.op = "deleteTask"
    /\ last.done
    /\ appState.statusFilter = "deleted"
    /\ Len(view.list) > 0
    /\ view.list[1].id = last.arg
    /\ slot.value.deletedTasks[1].id = last.arg
    /\ FindIndex(slot.value.tasks, last.arg) = 0


\* C34: switchStatusFilter(f) sets statusFilter to f and leaves tags, tasks
\* and deletedTasks as they are; toggleTag(t) leaves statusFilter, tasks and
\* deletedTasks as they are and does not select or unselect the other tag.
C34_FilterAxesAreSeparate ==
    [][/\ \A f \in scope.filters :
            SwitchStatusFilter(f, TRUE) =>
                /\ appState'.statusFilter = f
                /\ appState'.tags = appState.tags
                /\ Tasks' = Tasks
                /\ DeletedTasks' = DeletedTasks
       /\ \A t \in scope.tags :
            ToggleTag(t, TRUE) =>
                /\ appState'.statusFilter = appState.statusFilter
                /\ Tasks' = Tasks
                /\ DeletedTasks' = DeletedTasks
                /\ \A u \in Tags \ {t} :
                      Includes(appState'.tags, u) <=> Includes(appState.tags, u)
      ]_vars

\* with one task stored, the completed filter was chosen and someday alone
\* is selected
C34_Witness ==
    /\ lastLoad = <<>>
    /\ Len(Tasks) + Len(DeletedTasks) = 1
    /\ appState.statusFilter = "completed"
    /\ appState.tags = <<"someday">>


\* the ids of the tasks of both arrays
AllIds == IdsOf(Tasks) \cup IdsOf(DeletedTasks)

\* C35: toggleTask, deleteTask, restoreTask, switchStatusFilter and toggleTag
\* leave the set of the ids of tasks and deletedTasks as it is, an addTask
\* that is not rejected adds exactly one id to it, and only addTask makes
\* the number of tasks grow, by one.
C35_IdsChangeByAddAndPurge ==
    [][/\ \A op \in {"toggleTask", "deleteTask", "restoreTask",
                     "switchStatusFilter", "toggleTag"} :
            Step(op) => AllIds' = AllIds
       /\ (Step("addTask") /\ last'.done) =>
            /\ \E id \in AllIds' : id \notin AllIds /\ AllIds' = AllIds \cup {id}
            /\ TotalTasks(appState') = TotalTasks(appState) + 1
       /\ (lastLoad' = <<>> /\ ~(Step("addTask") /\ last'.done)) =>
            TotalTasks(appState') <= TotalTasks(appState)
      ]_vars


\* C36: permanentDeleteTask(id) and emptyTrash() leave tasks, statusFilter
\* and tags as they are; permanentDeleteTask(id) keeps every task of
\* deletedTasks with another id, in order, removes at most the one task
\* with that id, and removes nothing when the id is that of an active task.
C36_PurgeLeavesActiveSet ==
    [][/\ (Step("permanentDeleteTask") \/ Step("emptyTrash")) =>
            /\ Tasks' = Tasks
            /\ appState'.statusFilter = appState.statusFilter
            /\ appState'.tags = appState.tags
       /\ Step("permanentDeleteTask") =>
            /\ SelectSeq(DeletedTasks', LAMBDA t : t.id # last'.arg)
                  = SelectSeq(DeletedTasks, LAMBDA t : t.id # last'.arg)
            /\ Len(DeletedTasks') >= Len(DeletedTasks) - 1
            /\ last'.arg \in IdsOf(Tasks) => DeletedTasks' = DeletedTasks
      ]_vars


\* the orders the elements of s can be in
OrdersOf(s) ==
    {[i \in 1..Len(s) |-> s[p[i]]] :
        p \in {q \in [1..Len(s) -> 1..Len(s)] :
                  \A i, j \in 1..Len(s) : i # j => q[i] # q[j]}}

DistinctCreatedAt(s) ==
    \A i, j \in 1..Len(s) : i # j => s[i].createdAt # s[j].createdAt

\* C37: when no two active tasks have the same createdAt, the list and the
\* counts under a filter other than deleted are the same for every order
\* of tasks, and so are the same after deleteTask(id) followed by
\* restoreTask(id) as before them.
C37_OrderOfTasksIsNotSeen ==
    (appState.statusFilter # "deleted" /\ DistinctCreatedAt(Tasks)) =>
        /\ \A s \in OrdersOf(Tasks) :
              LET st == [appState EXCEPT !.tasks = s]
              IN  /\ VisibleTasks(st, now) = VisibleTasks(appState, now)
                  /\ Counts(st, now) = Counts(appState, now)
        /\ \A id \in IdsOf(Tasks) :
              LET st == RestoreTaskF(DeleteTaskF(appState, id, now), id)
              IN  /\ VisibleTasks(st, now) = VisibleTasks(appState, now)
                  /\ Counts(st, now) = Counts(appState, now)

\* three active tasks with distinct createdAt, two of them equal in
\* completed and important, in an order that is not the order shown
C37_Witness ==
    /\ appState.statusFilter = "all"
    /\ appState.tags = <<>>
    /\ Len(Tasks) = 3
    /\ DistinctCreatedAt(Tasks)
    /\ Tasks[1].completed = Tasks[2].completed
    /\ Tasks[1].important = Tasks[2].important
    /\ Tasks[1].createdAt < Tasks[2].createdAt
    /\ VisibleTasks(appState, now) # Tasks


\* C38: a page load that follows a page load whose write succeeded returns
\* the tasks, deletedTasks, statusFilter and tags the first one returned.
C38_LoadTwiceIsLoadOnce ==
    [][(JustLoaded /\ wlog.last = "ok" /\ lastLoad' # <<>>) =>
          SameData(appState', appState)]_vars

\* the second load of a record of the first format: it finds the record the
\* first load stored, with the version, the old filter as statusFilter and
\* the old category as the tag
C38_Witness ==
    /\ JustLoaded
    /\ Found.kind = "json"
    /\ Has(Found.value, "version")
    /\ Found.value.statusFilter = "completed"
    /\ appState.tags = <<"someday">>
    /\ Len(Tasks) > 0
    /\ SameData(Found.value, appState)

=============================================================================
